---- MODULE Spec2Model ----
(***************************************************************************)
(* The tossup reader of qbhub-client: the redux slice tossupReaderSlice    *)
(* (status, question cache, results, score), the thunks nextTossup and     *)
(* fetchTossups, and the Question component that reveals a tossup word by  *)
(* word with one-shot timers.                                              *)
(*                                                                         *)
(* Scheduling.  JavaScript runs one task at a time.  A task is a user      *)
(* event, a timer callback, a network completion or React's deferred       *)
(* flush of passive effects (useEffect).  The continuation of an async     *)
(* function after an already settled promise is a microtask: it runs       *)
(* before any other task (nextPc = "resume" disables every task).          *)
(* React renders synchronously with the task that changed state, runs the  *)
(* effects of a render in a later task, and always flushes the effects of  *)
(* the last render before it dispatches a user event or renders again.     *)
(***************************************************************************)
EXTENDS Integers, Sequences, FiniteSets, TLC

\* ------------------------------------------------------------------ bounds
MaxQuestions == 6      \* questions the source can deliver in a session
MaxRequests == 3       \* accepted request-next calls in a session

\* ------------------------------------------------------- program constants
LowCacheThreshold == 5

\* ReaderStatus
idle == "idle"
fetching == "fetching"
reading == "reading"
answering == "answering"
prompting == "prompting"
judged == "judged"
empty == "empty"
ReaderStatus == {idle, fetching, reading, answering, prompting, judged, empty}

\* `{} as Tossup`, and the undefined that `[x] = []` assigns
EmptyTossup == 0
NoTossup == -1
\* `{} as TossupResult`
EmptyResult == [tossup |-> EmptyTossup, score |-> 0, buzz |-> 0]
\* incrementId === null
NullId == 0

\* -------------------------------------------------- the questions (inputs)
Questions == 1..MaxQuestions
\* a full batch leaves the cache at the threshold after the first question
BigBatch == LowCacheThreshold + 1
BatchSizes == {0, 1, 3, BigBatch}
Categories == {0, 1}
\* the selections a filter action carries
Payloads == {{c} : c \in Categories}
Speeds == {0, 1}
\* the value of a member an enum object does not have, and the sum of a
\* number and such a value
Undefined == -1000
NaN == -2000
\* the scores a result carries: getTossupScore gives them
ScoreInputs == {-5, 10, Undefined}

\* text and bold (power) text of question q, as the word lists text.split(' ')
TextOf(q) ==
  IF q % 2 = 0 THEN <<"a", "a">> ELSE <<"c">>
\* ''.split(' ') is [''] when the question has no bold text
BoldOf(q) ==
  IF q % 2 = 0 THEN <<"a">> ELSE <<"">>
CategoryOf(q) == q % 2
SubcategoryOf(q) == IF q > 2 THEN 1 ELSE 0
DifficultyOf(q) == IF q > 1 THEN 1 ELSE 0

\* ---------------------------------------------------------- pure helpers
RECURSIVE CountIn(_, _)
CountIn(w, s) ==
  IF s = <<>> THEN 0
  ELSE (IF Head(s) = w THEN 1 ELSE 0) + CountIn(w, Tail(s))

\* getPowerWordsCount: how often each word occurs in the bold text
getPowerWordsCount(bold) == [w \in {bold[i] : i \in DOMAIN bold} |-> CountIn(w, bold)]

\* the words memo of Question: a word is in power while its count is > 0,
\* and each power word uses the count up by one
getWords(q) ==
  IF q \in Questions
  THEN LET text == TextOf(q)
           cnt == getPowerWordsCount(BoldOf(q))
       IN [i \in DOMAIN text |->
             [original |-> text[i],
              isInPower |-> /\ text[i] \in DOMAIN cnt
                            /\ cnt[text[i]] - CountIn(text[i], SubSeq(text, 1, i - 1)) > 0]]
  ELSE <<>>

\* getReadingTimeoutDelay: a higher speed gives a shorter delay
getReadingTimeoutDelay(speed) == 2 - speed

RECURSIVE SelectSeq2(_, _, _)
SelectSeq2(s, attr(_), allowed) ==
  IF s = <<>> THEN <<>>
  ELSE (IF attr(Head(s)) \in allowed THEN <<Head(s)>> ELSE <<>>)
         \o SelectSeq2(Tail(s), attr, allowed)

\* words.slice(0, n).map(w => w.original), the words joined by readText
Originals(words, n) ==
  [i \in 1..(IF n < Len(words) THEN n ELSE Len(words)) |-> words[i].original]

VARIABLES
  status, tossups, results, currentTossup, currentResult, currentBuzz, score,
  readingSpeed,
  visibleIndex, incrementId, fxPending, crashed,
  timers,
  nextPc, awaited, bgInFlight,
  served, requests, shown, filtered, published,
  judgeAnswerline, acceptableAnswers, promptableAnswers, lastJudged, scored,
  normalizing,
  categories, subcategories, difficulties

\* the selections of the settings
settingsVars == <<categories, subcategories, difficulties>>

\* the Judge of the question at hand, its last verdict, the last score
\* computed by getTossupScore or getBonusScore, the last text handed to
\* normalizeAnswer, and the selections of the settings
judgeVars == <<judgeAnswerline, acceptableAnswers, promptableAnswers, lastJudged, scored,
               normalizing, settingsVars>>

readerVars == <<status, tossups, results, currentTossup, currentResult, currentBuzz,
                score, readingSpeed, visibleIndex, incrementId, fxPending, crashed,
                timers, nextPc, awaited, bgInFlight, served, requests, shown,
                filtered, published>>

vars == <<status, tossups, results, currentTossup, currentResult, currentBuzz,
          score, readingSpeed, visibleIndex, incrementId, fxPending, crashed,
          timers, nextPc, awaited, bgInFlight, served, requests, shown,
          filtered, published,
          judgeAnswerline, acceptableAnswers, promptableAnswers, lastJudged, scored,
          normalizing, categories, subcategories, difficulties>>

\* ------------------------------------------------ the state as one record
Cur ==
  [status |-> status, tossups |-> tossups, results |-> results,
   currentTossup |-> currentTossup, currentResult |-> currentResult,
   currentBuzz |-> currentBuzz, score |-> score,
   visibleIndex |-> visibleIndex, incrementId |-> incrementId,
   fxPending |-> fxPending, crashed |-> crashed, timers |-> timers,
   published |-> published]

Commit(S) ==
  /\ status' = S.status
  /\ tossups' = S.tossups
  /\ results' = S.results
  /\ currentTossup' = S.currentTossup
  /\ currentResult' = S.currentResult
  /\ currentBuzz' = S.currentBuzz
  /\ score' = S.score
  /\ visibleIndex' = S.visibleIndex
  /\ incrementId' = S.incrementId
  /\ fxPending' = S.fxPending
  /\ crashed' = S.crashed
  /\ timers' = S.timers
  /\ published' = S.published

initialBuzz == [isPower |-> FALSE, readText |-> <<>>, index |-> 0, textWithBuzz |-> <<>>]

\* ------------------------------------------------------------- reducers
buzzAnyStatus(S) == [S EXCEPT !.status = answering]

buzz(S) ==
  IF S.status = reading THEN [S EXCEPT !.status = answering] ELSE S

setBuzzNextIndex(S, payload) ==
  [S EXCEPT !.currentBuzz = [payload EXCEPT !.index = @ + 1], !.published = @ + 1]

setBuzz(S, payload) ==
  [S EXCEPT !.currentBuzz = payload, !.published = @ + 1]

\* a + b of two numbers
Plus(a, b) == IF a \in {Undefined, NaN} \/ b \in {Undefined, NaN} THEN NaN ELSE a + b

prompt(S) ==
  IF S.status \in {answering, prompting} THEN [S EXCEPT !.status = prompting] ELSE S

submitAnswerAnyStatus(S, payload) ==
  [S EXCEPT !.status = judged,
            !.currentResult = payload,
            !.results = <<payload>> \o @,
            !.score = Plus(@, payload.score)]

submitAnswer(S, payload) ==
  IF S.status = answering \/ S.status = prompting
  THEN [S EXCEPT !.status = judged,
                 !.currentResult = payload,
                 !.results = <<payload>> \o @,
                 !.score = Plus(@, payload.score)]
  ELSE S

filterTossupsByCategory(S, payload) ==
  [S EXCEPT !.tossups = SelectSeq2(@, CategoryOf, payload)]

filterTossupsBySubcategory(S, payload) ==
  [S EXCEPT !.tossups = SelectSeq2(@, SubcategoryOf, payload)]

filterTossupsByDifficulties(S, payload) ==
  [S EXCEPT !.tossups = SelectSeq2(@, DifficultyOf, payload)]

fetchTossupsFulfilledAssigns(S, payload) ==
  [S EXCEPT !.tossups = payload]

fetchTossupsFulfilled(S, payload) ==
  [S EXCEPT !.tossups = @ \o payload]

nextTossupPending(S) ==
  [S EXCEPT !.status = fetching]

nextTossupFulfilledNoEmpty(S) ==
  IF Len(S.tossups) <= 1
  THEN [S EXCEPT !.status = reading, !.currentTossup = NoTossup, !.tossups = <<>>]
  ELSE [S EXCEPT !.currentResult = EmptyResult,
                 !.tossups = Tail(@),
                 !.currentTossup = Head(Tail(S.tossups)),
                 !.status = reading]

\* state.tossups.shift(); [state.currentTossup] = state.tossups
nextTossupFulfilled(S) ==
  IF Len(S.tossups) = 0
  THEN [S EXCEPT !.status = empty]
  ELSE LET rest == Tail(S.tossups)
       IN [S EXCEPT !.currentResult = EmptyResult,
                    !.tossups = rest,
                    !.currentTossup = IF rest = <<>> THEN NoTossup ELSE Head(rest),
                    !.status = reading]

fetchTossupsUtilNoCatch(response) ==
  [threw |-> ~response.ok, value |-> response.data]

\* fetchUtils.fetchTossups: the response mapped, or [] when the request throws;
\* threw says whether the promise it returns is rejected
fetchTossupsUtil(response) ==
  IF response.ok
  THEN [threw |-> FALSE, value |-> response.data]
  ELSE [threw |-> FALSE, value |-> <<>>]

\* ------------------------------------------------ the Question component
\* QuestionContainer renders Question unless the status is fetching or empty
Mounted(S) == S.status \notin {fetching, empty} /\ ~S.crashed

FreshId(S) ==
  CHOOSE i \in 1..(Cardinality(S.timers) + 2) :
    /\ i # S.incrementId
    /\ \A t \in S.timers : t.id # i

pauseWordsKeepsTimer(c, S) ==
  IF c.incrementId # NullId THEN [S EXCEPT !.incrementId = NullId] ELSE S

\* pauseWords, run by the effect "pause reading when answering"
pauseWords(c, S) ==
  IF c.incrementId # NullId
  THEN [S EXCEPT !.timers = {t \in @ : t.id # c.incrementId},
                 !.incrementId = NullId]
  ELSE S

PauseEffect(c, S) ==
  IF c.status = answering THEN pauseWords(c, S) ELSE S

\* the effect "reset state when fetching new tossup"
ResetEffect(c, S) ==
  IF c.status = fetching THEN [S EXCEPT !.visibleIndex = 0] ELSE S

ReadEffectIgnoresId(c, S, speed) ==
  LET words == getWords(c.currentTossup)
  IN IF c.status = reading
     THEN IF c.visibleIndex < Len(words)
          THEN LET id == FreshId(S)
                   timer == [id |-> id, v |-> c.visibleIndex,
                             delay |-> getReadingTimeoutDelay(speed),
                             live |-> TRUE]
                   newCurrentBuzz ==
                     [readText |-> Originals(words, c.visibleIndex + 1),
                      isPower |-> words[c.visibleIndex + 1].isInPower,
                      index |-> c.visibleIndex,
                      textWithBuzz |-> words]
               IN setBuzz([S EXCEPT !.timers = @ \cup {timer},
                                    !.incrementId = id],
                          newCurrentBuzz)
          ELSE buzz(S)
     ELSE S

\* the effect "read tossup"; c holds the values of the render it belongs to
ReadEffect(c, S, speed) ==
  LET words == getWords(c.currentTossup)
  IN IF c.status = reading
     THEN IF c.visibleIndex < Len(words)
          THEN IF c.incrementId = NullId
               THEN LET id == FreshId(S)
                        timer == [id |-> id, v |-> c.visibleIndex,
                                  delay |-> getReadingTimeoutDelay(speed),
                                  live |-> TRUE]
                        newCurrentBuzz ==
                          [readText |-> Originals(words, c.visibleIndex + 1),
                           isPower |-> words[c.visibleIndex + 1].isInPower,
                           index |-> c.visibleIndex,
                           textWithBuzz |-> words]
                    IN setBuzz([S EXCEPT !.timers = @ \cup {timer},
                                         !.incrementId = id],
                               newCurrentBuzz)
               ELSE S
          ELSE buzz(S)
     ELSE S

\* React runs the effects of the last render, in the order they are declared
Flush(S, speed) ==
  IF S.fxPending /\ Mounted(S)
  THEN [ReadEffect(S, ResetEffect(S, PauseEffect(S, S)), speed)
          EXCEPT !.fxPending = FALSE]
  ELSE S

Deps(S, speed) ==
  <<S.status, S.visibleIndex, S.incrementId, speed, S.currentTossup>>

RenderKeepsIndex(pre, preSpeed, S, speed) ==
  LET thrown == /\ S.status \notin {fetching, empty}
                /\ S.currentTossup = NoTossup
      S1 == [S EXCEPT !.crashed = @ \/ thrown]
  IN IF Mounted(S1)
     THEN IF Mounted(pre)
          THEN [S1 EXCEPT !.fxPending = @ \/ Deps(S1, speed) # Deps(pre, preSpeed)]
          ELSE [S1 EXCEPT !.fxPending = TRUE, !.published = 0]
     ELSE [S1 EXCEPT !.incrementId = NullId,
                     !.fxPending = FALSE,
                     !.published = 0,
                     !.timers = {[t EXCEPT !.live = FALSE] : t \in @}]

\* the render that follows a task: pre is the state of the render before it
Render(pre, preSpeed, S, speed) ==
  LET thrown == /\ S.status \notin {fetching, empty}
                /\ S.currentTossup = NoTossup
      S1 == [S EXCEPT !.crashed = @ \/ thrown]
  IN IF Mounted(S1)
     THEN IF Mounted(pre)
          THEN [S1 EXCEPT !.fxPending = @ \/ Deps(S1, speed) # Deps(pre, preSpeed)]
          ELSE [S1 EXCEPT !.fxPending = TRUE, !.published = 0]
     ELSE [S1 EXCEPT !.visibleIndex = 0,
                     !.incrementId = NullId,
                     !.fxPending = FALSE,
                     !.published = 0,
                     !.timers = {[t EXCEPT !.live = FALSE] : t \in @}]

\* a task: pending effects first, then the handler, then the render
Task(handler(_), newSpeed) ==
  Commit(Render(Cur, readingSpeed, handler(Flush(Cur, readingSpeed)), newSpeed))

Identity(S) == S

incrementVisibleIndexSkips(t, S) ==
  LET S1 == [S EXCEPT !.timers = @ \ {t}]
  IN IF t.live /\ Mounted(S)
     THEN [S1 EXCEPT !.visibleIndex = t.v + 2, !.incrementId = NullId]
     ELSE S1

\* incrementVisibleIndex, the callback of timer t; the setters of an
\* unmounted component do nothing
incrementVisibleIndex(t, S) ==
  LET S1 == [S EXCEPT !.timers = @ \ {t}]
  IN IF t.live /\ Mounted(S)
     THEN [S1 EXCEPT !.visibleIndex = t.v + 1, !.incrementId = NullId]
     ELSE S1

\* the batch of n questions the source answers with
Batch(n) == [i \in 1..n |-> served + i]
NetworkError == [ok |-> FALSE, data |-> <<>>]
Responses ==
  {NetworkError}
    \cup {[ok |-> TRUE, data |-> Batch(n)] : n \in {m \in BatchSizes : served + m <= MaxQuestions}}

\* no Judge has been constructed, nothing has been scored or normalized, and
\* nothing is selected in the settings
NoVerdict == [userAnswer |-> <<>>, verdict |-> "none"]
NoScore == [kind |-> "none", args |-> <<>>, value |-> 0]
NoText == [input |-> <<>>, output |-> <<>>, passes |-> 0]
NoJudge ==
  /\ judgeAnswerline = <<>>
  /\ acceptableAnswers = <<>>
  /\ promptableAnswers = <<>>
  /\ lastJudged = NoVerdict
  /\ scored = NoScore
  /\ normalizing = NoText
  /\ categories = <<>>
  /\ subcategories = <<>>
  /\ difficulties = <<>>

Init ==
  /\ status = idle
  /\ tossups = <<>>
  /\ results = <<>>
  /\ score = 0
  /\ currentTossup = EmptyTossup
  /\ currentResult = EmptyResult
  /\ currentBuzz = initialBuzz
  /\ readingSpeed \in Speeds
  /\ visibleIndex = 0
  /\ incrementId = NullId
  /\ fxPending = FALSE
  /\ crashed = FALSE
  /\ timers = {}
  /\ nextPc = "none"
  /\ awaited = [blocking |-> FALSE, failed |-> FALSE, delivered |-> 0]
  /\ bgInFlight = 0
  /\ served = 0
  /\ requests = 0
  /\ shown = <<>>
  /\ filtered = FALSE
  /\ published = 0
  /\ NoJudge

\* no continuation of nextTossup is queued: the next task may run
Idle == nextPc # "resume"
\* the user interface is alive, and React has flushed the effects of the
\* last render, as it does before it dispatches a user event
UserCan == Idle /\ ~crashed /\ ~fxPending

\* --------------------------------------------------------------- actions
\* React's deferred flush of the effects of the last render
FlushEffects ==
  /\ Idle /\ fxPending
  /\ Task(Identity, readingSpeed)
  /\ UNCHANGED <<judgeVars, readingSpeed, nextPc, awaited, bgInFlight, served, requests, shown, filtered>>

\* dispatch(buzz()) by the user
Buzz ==
  /\ UserCan
  /\ Task(buzz, readingSpeed)
  /\ UNCHANGED <<judgeVars, readingSpeed, nextPc, awaited, bgInFlight, served, requests, shown, filtered>>

\* dispatch(prompt())
Prompt ==
  /\ UserCan
  /\ Task(prompt, readingSpeed)
  /\ UNCHANGED <<judgeVars, readingSpeed, nextPc, awaited, bgInFlight, served, requests, shown, filtered>>

\* the result the caller of submitAnswer builds for a verdict worth s points
ResultOf(S, s) == [tossup |-> S.currentTossup, score |-> s, buzz |-> S.currentBuzz.index]

\* dispatch(submitAnswer(result))
SubmitAnswer ==
  /\ UserCan
  /\ \E s \in ScoreInputs :
       Task(LAMBDA S : submitAnswer(S, ResultOf(S, s)), readingSpeed)
  /\ UNCHANGED <<judgeVars, readingSpeed, nextPc, awaited, bgInFlight, served, requests, shown, filtered>>

FilterByCategory ==
  /\ UserCan
  /\ \E payload \in Payloads :
       Task(LAMBDA S : filterTossupsByCategory(S, payload), readingSpeed)
  /\ filtered' = TRUE
  /\ UNCHANGED <<judgeVars, readingSpeed, nextPc, awaited, bgInFlight, served, requests, shown>>

FilterBySubcategory ==
  /\ UserCan
  /\ \E payload \in Payloads :
       Task(LAMBDA S : filterTossupsBySubcategory(S, payload), readingSpeed)
  /\ filtered' = TRUE
  /\ UNCHANGED <<judgeVars, readingSpeed, nextPc, awaited, bgInFlight, served, requests, shown>>

FilterByDifficulties ==
  /\ UserCan
  /\ \E payload \in Payloads :
       Task(LAMBDA S : filterTossupsByDifficulties(S, payload), readingSpeed)
  /\ filtered' = TRUE
  /\ UNCHANGED <<judgeVars, readingSpeed, nextPc, awaited, bgInFlight, served, requests, shown>>

\* the reading-speed setting changes
UpdateReadingSpeed ==
  /\ UserCan
  /\ \E v \in Speeds \ {readingSpeed} :
       /\ readingSpeed' = v
       /\ Task(Identity, v)
  /\ UNCHANGED <<judgeVars, nextPc, awaited, bgInFlight, served, requests, shown, filtered>>

\* a reveal timer fires
TimerFire ==
  /\ Idle
  /\ \E t \in timers : Task(LAMBDA S : incrementVisibleIndex(t, S), readingSpeed)
  /\ UNCHANGED <<judgeVars, readingSpeed, nextPc, awaited, bgInFlight, served, requests, shown, filtered>>

NextTossupRefillsAlways ==
  /\ UserCan
  /\ requests < MaxRequests
  /\ LET F == Cur
     IN /\ F.status \in {idle, judged}
        /\ Commit(Render(Cur, readingSpeed, nextTossupPending(F), readingSpeed))
        /\ requests' = requests + 1
        /\ awaited' = [blocking |-> Len(F.tossups) = 0, failed |-> FALSE, delivered |-> 0]
        /\ IF Len(F.tossups) = 0
           THEN nextPc' = "await" /\ bgInFlight' = bgInFlight
           ELSE nextPc' = "resume" /\ bgInFlight' = bgInFlight + 1
  /\ UNCHANGED <<judgeVars, readingSpeed, served, shown, filtered>>

\* dispatch(nextTossup()): the condition, the pending action and the body up
\* to its await
NextTossup ==
  /\ UserCan
  /\ requests < MaxRequests
  /\ LET F == Cur
     IN /\ F.status \in {idle, judged}
        /\ Commit(Render(Cur, readingSpeed, nextTossupPending(F), readingSpeed))
        /\ requests' = requests + 1
        /\ awaited' = [blocking |-> Len(F.tossups) = 0, failed |-> FALSE, delivered |-> 0]
        /\ IF Len(F.tossups) = 0
           THEN nextPc' = "await" /\ bgInFlight' = bgInFlight
           ELSE IF Len(F.tossups) < LowCacheThreshold
                THEN nextPc' = "resume" /\ bgInFlight' = bgInFlight + 1
                ELSE nextPc' = "resume" /\ bgInFlight' = bgInFlight
  /\ UNCHANGED <<judgeVars, readingSpeed, served, shown, filtered>>

\* dispatch(nextTossup()) in another status: the condition refuses it
NextTossupRefused ==
  /\ UserCan
  /\ status \notin {idle, judged}
  /\ Task(Identity, readingSpeed)
  /\ UNCHANGED <<judgeVars, readingSpeed, nextPc, awaited, bgInFlight, served, requests, shown, filtered>>

\* the fetch nextTossup awaits settles.  Fulfilled: fetchTossups.fulfilled,
\* and the continuation of nextTossup is queued.  Rejected: unwrap() throws,
\* nextTossup is rejected, and no reducer handles either rejection.
\* Question does not select the cache, so nothing is rendered.
FetchSettleAwaited ==
  /\ Idle /\ nextPc = "await"
  /\ \E response \in Responses :
       LET r == fetchTossupsUtil(response)
       IN /\ served' = served + Len(response.data)
          /\ awaited' = [awaited EXCEPT !.failed = ~response.ok,
                                        !.delivered = Len(r.value)]
          /\ IF r.threw
             THEN Commit(Cur) /\ nextPc' = "none"
             ELSE Commit(fetchTossupsFulfilled(Cur, r.value)) /\ nextPc' = "resume"
  /\ UNCHANGED <<judgeVars, readingSpeed, bgInFlight, requests, shown, filtered>>

\* a background fetch settles: fetchTossups.fulfilled, or a rejection that
\* no reducer handles
FetchSettleBackground ==
  /\ Idle /\ bgInFlight > 0
  /\ \E response \in Responses :
       LET r == fetchTossupsUtil(response)
       IN /\ served' = served + Len(response.data)
          /\ IF r.threw
             THEN Commit(Cur)
             ELSE Commit(fetchTossupsFulfilled(Cur, r.value))
  /\ bgInFlight' = bgInFlight - 1
  /\ UNCHANGED <<judgeVars, readingSpeed, nextPc, awaited, requests, shown, filtered>>

\* the continuation of nextTossup: nextTossup.fulfilled
NextTossupFulfilled ==
  /\ nextPc = "resume"
  /\ Task(nextTossupFulfilled, readingSpeed)
  /\ nextPc' = "none"
  /\ shown' = IF status' = reading THEN Append(shown, currentTossup') ELSE shown
  /\ UNCHANGED <<judgeVars, readingSpeed, awaited, bgInFlight, served, requests, filtered>>

Next ==
  \/ FlushEffects
  \/ Buzz
  \/ Prompt
  \/ SubmitAnswer
  \/ FilterByCategory
  \/ FilterBySubcategory
  \/ FilterByDifficulties
  \/ UpdateReadingSpeed
  \/ TimerFire
  \/ NextTossup
  \/ NextTossupRefused
  \/ FetchSettleAwaited
  \/ FetchSettleBackground
  \/ NextTossupFulfilled

Spec == Init /\ [][Next]_vars

\* the network answers or fails in the end, and a queued continuation runs
FairFetch ==
  /\ Spec
  /\ WF_vars(FetchSettleAwaited)
  /\ WF_vars(NextTossupFulfilled)

\* a timer that is not cleared fires, and React flushes the effects it has
\* scheduled
FairReveal ==
  /\ Spec
  /\ WF_vars(FlushEffects)
  /\ WF_vars(TimerFire)

\* -------------------------------------------------------------- strings
\* A string is the sequence of its characters.
Smallest(S) == CHOOSE x \in S : \A y \in S : x <= y
Largest(S) == CHOOSE x \in S : \A y \in S : x >= y

\* s.startsWith(pat, i - 1)
StartsWithAt(s, i, pat) ==
  /\ i >= 1
  /\ i + Len(pat) - 1 <= Len(s)
  /\ SubSeq(s, i, i + Len(pat) - 1) = pat

\* s.indexOf(pat, from - 1) + 1: 0 when pat does not occur
IndexOfFrom(s, pat, from) ==
  LET hits == {i \in from..Len(s) : StartsWithAt(s, i, pat)}
  IN IF hits = {} THEN 0 ELSE Smallest(hits)

\* s.lastIndexOf(pat) + 1
LastIndexOf(s, pat) ==
  LET hits == {i \in 1..Len(s) : StartsWithAt(s, i, pat)}
  IN IF hits = {} THEN 0 ELSE Largest(hits)

\* s.includes(pat)
Includes(s, pat) == IndexOfFrom(s, pat, 1) # 0

\* s.endsWith(pat, n): the first n characters of s end with pat
EndsWithAt(s, pat, n) == StartsWithAt(SubSeq(s, 1, n), n - Len(pat) + 1, pat)

\* s.slice(i - 1)
From(s, i) == SubSeq(s, i, Len(s))

\* normalizeSpacing: runs of spaces become one space, and the ends are trimmed
RECURSIVE SqueezeSpaces(_)
SqueezeSpaces(s) ==
  IF s = <<>> THEN <<>>
  ELSE IF Head(s) = " " /\ (Len(s) = 1 \/ s[2] = " ")
       THEN SqueezeSpaces(Tail(s))
       ELSE <<Head(s)>> \o SqueezeSpaces(Tail(s))
normalizeSpacing(s) ==
  LET t == SqueezeSpaces(s)
  IN IF t # <<>> /\ Head(t) = " " THEN Tail(t) ELSE t

\* s.split(' ') and words.join(' ')
RECURSIVE Split(_)
Split(s) ==
  LET i == IndexOfFrom(s, <<" ">>, 1)
  IN IF i = 0 THEN <<s>> ELSE <<SubSeq(s, 1, i - 1)>> \o Split(From(s, i + 1))
RECURSIVE Join(_)
Join(ws) ==
  IF ws = <<>> THEN <<>>
  ELSE IF Len(ws) = 1 THEN ws[1]
  ELSE ws[1] \o <<" ">> \o Join(Tail(ws))

\* ------------------------------------------------------- answer parsing
\* ltgt: author metadata, written with escaped angle brackets
RECURSIVE removeAuthorMetadata(_)
removeAuthorMetadata(s) ==
  IF s = <<>> THEN <<>>
  ELSE LET close == IndexOfFrom(s, <<"&", "g", "t", ";">>, 5)
       IN IF StartsWithAt(s, 1, <<"&", "l", "t", ";">>) /\ close # 0
          THEN removeAuthorMetadata(From(s, close + 4))
          ELSE <<Head(s)>> \o removeAuthorMetadata(Tail(s))

\* replaceAll(/\((?!accept|or|prompt).*?\)/g, '')
RECURSIVE removeAsides(_)
removeAsides(s) ==
  IF s = <<>> THEN <<>>
  ELSE LET close == IndexOfFrom(s, <<")">>, 2)
           kept == \/ StartsWithAt(s, 2, <<"a", "c", "c", "e", "p", "t">>)
                   \/ StartsWithAt(s, 2, <<"o", "r">>)
                   \/ StartsWithAt(s, 2, <<"p", "r", "o", "m", "p", "t">>)
       IN IF Head(s) = "(" /\ ~kept /\ close # 0
          THEN removeAsides(From(s, close + 1))
          ELSE <<Head(s)>> \o removeAsides(Tail(s))

\* replaceAll('(', '[').replaceAll(')', ']')
toBrackets(s) ==
  [i \in DOMAIN s |-> IF s[i] = "(" THEN "[" ELSE IF s[i] = ")" THEN "]" ELSE s[i]]

cleanAnswerline(s) ==
  normalizeSpacing(toBrackets(removeAsides(removeAuthorMetadata(s))))

\* getTextBetweenTags(text, t): the texts between <t> and </t>
RECURSIVE getTextBetweenTags(_, _)
getTextBetweenTags(text, t) ==
  LET open == <<"<">> \o t \o <<">">>
      close == <<"<", "/">> \o t \o <<">">>
      i == IndexOfFrom(text, open, 1)
      j == IF i = 0 THEN 0 ELSE IndexOfFrom(text, close, i + Len(open))
  IN IF j = 0 THEN <<>>
     ELSE <<SubSeq(text, i + Len(open), j - 1)>>
            \o getTextBetweenTags(From(text, j + Len(close)), t)

\* remove(s, anyTag), removeTags: every <...> is removed
RECURSIVE removeTags(_)
removeTags(s) ==
  IF s = <<>> THEN <<>>
  ELSE LET close == IndexOfFrom(s, <<">">>, 2)
       IN IF Head(s) = "<" /\ close # 0
          THEN removeTags(From(s, close + 1))
          ELSE <<Head(s)>> \o removeTags(Tail(s))

\* the words that end a captured answer: (?= (?:do not|...|after) |[,;[\]]|$)
StopWords ==
  {<<"d", "o", " ", "n", "o", "t">>, <<"p", "r", "o", "m", "p", "t">>, <<"a", "c", "c", "e", "p", "t">>, <<"o", "r">>,
   <<"u", "n", "t", "i", "l">>, <<"b", "e", "f", "o", "r", "e">>, <<"a", "f", "t", "e", "r">>}
LookaheadAt(s, k) ==
  \/ k = Len(s) + 1
  \/ s[k] \in {",", ";", "[", "]"}
  \/ s[k] = " " /\ \E w \in StopWords : StartsWithAt(s, k + 1, w \o <<" ">>)

\* s.matchAll(/(?:[[,; ])(?:KEYWORD |or )(.*?)(?=...)/g) from position from:
\* each match with its position, its text and its captured group
RECURSIVE matchAll(_, _, _)
matchAll(s, keyword, from) ==
  LET starts == {i \in from..Len(s) :
                   /\ s[i] \in {"[", ",", ";", " "}
                   /\ \/ StartsWithAt(s, i + 1, keyword \o <<" ">>)
                      \/ StartsWithAt(s, i + 1, <<"o", "r", " ">>)}
  IN IF starts = {} THEN <<>>
     ELSE LET i == Smallest(starts)
              j == IF StartsWithAt(s, i + 1, keyword \o <<" ">>)
                   THEN i + 1 + Len(keyword) + 1
                   ELSE i + 1 + 3
              k == Smallest({n \in j..(Len(s) + 1) : LookaheadAt(s, n)})
          IN <<[index |-> i, match |-> SubSeq(s, i, k - 1), group |-> SubSeq(s, j, k - 1)]>>
               \o matchAll(s, keyword, k)

\* multipleLastIndexOf(input, [';', ',', '['], index): the position of the
\* last delimiter up to the match, the start of the text when there is none
multipleLastIndexOf(input, index) ==
  LET hits == {i \in 1..index : input[i] \in {";", ",", "["}}
  IN IF hits = {} THEN 1 ELSE Largest(hits)

\* match.slice(1).split(' ')[0]
answerPrefix(match) == Split(Tail(match))[1]

filterNegativeAnswersOrAlwaysKept(m, input, answerType) ==
  IF answerType = "accept" /\ answerPrefix(m.match) = <<"a", "c", "c", "e", "p", "t">>
  THEN \A neg \in {<<"d", "o", " ", "n", "o", "t">>, <<"d", "o", " ", "n", "o", "t", " ", "p", "r", "o", "m", "p", "t", " ", "o", "n", " ", "o", "r">>, <<"d", "o", " ", "n", "o", "t", " ", "p", "r", "o", "m", "p", "t", " ", "o", "r">>} :
         ~EndsWithAt(input, neg, m.index - 1)
  ELSE IF answerType = "prompt" /\ answerPrefix(m.match) = <<"p", "r", "o", "m", "p", "t">>
  THEN \A neg \in {<<"d", "o", " ", "n", "o", "t">>, <<"d", "o", " ", "n", "o", "t", " ", "a", "c", "c", "e", "p", "t", " ", "o", "r">>} :
         ~EndsWithAt(input, neg, m.index - 1)
  ELSE TRUE

\* filterNegativeAnswers: TRUE when the match is kept
filterNegativeAnswers(m, input, answerType) ==
  LET prevString == SubSeq(input, multipleLastIndexOf(input, m.index), m.index - 1)
      promptIndex == LastIndexOf(prevString, <<"p", "r", "o", "m", "p", "t", " ", "o", "n">>)
  IN IF answerType = "accept" /\ answerPrefix(m.match) = <<"a", "c", "c", "e", "p", "t">>
     THEN \A neg \in {<<"d", "o", " ", "n", "o", "t">>, <<"d", "o", " ", "n", "o", "t", " ", "p", "r", "o", "m", "p", "t", " ", "o", "n", " ", "o", "r">>, <<"d", "o", " ", "n", "o", "t", " ", "p", "r", "o", "m", "p", "t", " ", "o", "r">>} :
            ~EndsWithAt(input, neg, m.index - 1)
     ELSE IF answerType = "prompt" /\ answerPrefix(m.match) = <<"p", "r", "o", "m", "p", "t">>
     THEN \A neg \in {<<"d", "o", " ", "n", "o", "t">>, <<"d", "o", " ", "n", "o", "t", " ", "a", "c", "c", "e", "p", "t", " ", "o", "r">>} :
            ~EndsWithAt(input, neg, m.index - 1)
     ELSE IF answerType = "accept" /\ answerPrefix(m.match) = <<"o", "r">>
     THEN \A neg \in {<<"d", "o", " ", "n", "o", "t", " ", "a", "c", "c", "e", "p", "t">>, <<"p", "r", "o", "m", "p", "t", " ", "o", "n">>, <<"p", "r", "o", "m", "p", "t">>} :
            ~Includes(prevString, neg)
     ELSE IF answerType = "prompt" /\ answerPrefix(m.match) = <<"o", "r">>
     THEN IF promptIndex = 0 THEN FALSE
          ELSE \A neg \in {<<"d", "o", " ", "n", "o", "t", " ">>, <<"d", "o", " ", "n", "o", "t", " ", "a", "c", "c", "e", "p", "t", " ", "o", "r", " ">>} :
                 ~EndsWithAt(prevString, neg, promptIndex - 1)
     ELSE TRUE

\* the groups of the matches that filterNegativeAnswers keeps
RECURSIVE KeptGroups(_, _, _)
KeptGroups(ms, input, answerType) ==
  IF ms = <<>> THEN <<>>
  ELSE (IF filterNegativeAnswers(Head(ms), input, answerType)
        THEN <<Head(ms).group>> ELSE <<>>)
         \o KeptGroups(Tail(ms), input, answerType)

\* removeFirstNames: the leading first names of an answer are dropped
FirstNames == {<<"j", "o", "h", "n">>}
RECURSIVE DropFirstNames(_)
DropFirstNames(ws) ==
  IF Len(ws) > 1 /\ Head(ws) \in FirstNames THEN DropFirstNames(Tail(ws)) ELSE ws
removeFirstNames(s) == Join(DropFirstNames(Split(s)))

\* replaceAll(quotes, '')
removeQuotes(s) == SelectSeq(s, LAMBDA c : c # "'")

\* toWords of number-to-words, for the numbers that occur
Digits == {"0", "1", "2"}
isNumeric(w) ==
  LET d == IF w # <<>> /\ Head(w) = "-" THEN Tail(w) ELSE w
  IN d # <<>> /\ \A i \in DOMAIN d : d[i] \in Digits
toWords(w) ==
  IF w = <<"0">> THEN <<"z", "e", "r", "o">>
  ELSE IF w = <<"1">> THEN <<"o", "n", "e">>
  ELSE IF w = <<"2">> THEN <<"t", "w", "o">>
  ELSE IF w = <<"1", "0">> THEN <<"t", "e", "n">>
  ELSE IF w = <<"1", "2">> THEN <<"t", "w", "e", "l", "v", "e">>
  ELSE IF w = <<"2", "1">> THEN <<"t", "w", "e", "n", "t", "y", "-", "o", "n", "e">>
  ELSE IF w = <<"1", "1">> THEN <<"e", "l", "e", "v", "e", "n">>
  ELSE IF w = <<"1", "1", "1">>
       THEN <<"o", "n", "e", " ", "h", "u", "n", "d", "r", "e", "d", " ", "e", "l", "e", "v", "e", "n">>
  ELSE IF w = <<"1", "1", "1", "1">>
       THEN <<"o", "n", "e", " ", "t", "h", "o", "u", "s", "a", "n", "d", ",", " ",
              "o", "n", "e", " ", "h", "u", "n", "d", "r", "e", "d", " ", "e", "l", "e", "v", "e", "n">>
  ELSE w
\* convertNumberToWords
convertNumberToWords(s) ==
  LET ws == Split(s)
  IN Join([i \in DOMAIN ws |-> IF isNumeric(ws[i]) THEN toWords(ws[i]) ELSE ws[i]])

\* toLowerCase, on the letters that occur
toLowerCase(s) ==
  [i \in DOMAIN s |-> IF s[i] = "A" THEN "a" ELSE IF s[i] = "J" THEN "j" ELSE s[i]]

\* removeNonAlphanumeric: letters, digits and spaces stay
Alphanumeric ==
  {"a", "b", "c", "d", "e", "f", "g", "h", "i", "j", "k", "l", "m", "n", "o",
   "p", "q", "r", "s", "t", "u", "v", "w", "x", "y", "z", "0", "1", "2", " "}
removeNonAlphanumeric(s) == SelectSeq(s, LAMBDA c : c \in Alphanumeric)

normalizeAnswer(s) ==
  normalizeSpacing(
    removeNonAlphanumeric(toLowerCase(convertNumberToWords(removeQuotes(normalizeSpacing(s))))))

\* combine(a, b), .filter(emptyStringFilter), getUnique (the first of equal
\* entries stays)
combineScannedFirst(a, b) == b \o a
combine(a, b) == a \o b
emptyStringFilter(answers) == SelectSeq(answers, LAMBDA a : a # <<>>)
RECURSIVE getUnique(_)
getUnique(answers) ==
  IF answers = <<>> THEN <<>>
  ELSE LET init == getUnique(SubSeq(answers, 1, Len(answers) - 1))
           last == answers[Len(answers)]
       IN IF \E i \in DOMAIN init : init[i] = last THEN init ELSE Append(init, last)

\* answers.map(f)
Map(f(_), answers) == [i \in DOMAIN answers |-> f(answers[i])]

\* /^(.*?)(?:$|(?:\[| or ).*)/g: the first answer, up to '[', ' or ' or the end
primaryAnswer(s) ==
  LET cuts == {i \in 1..Len(s) : s[i] = "[" \/ StartsWithAt(s, i, <<" ", "o", "r", " ">>)}
  IN IF cuts = {} THEN s ELSE SubSeq(s, 1, Smallest(cuts) - 1)

parseAcceptableAnswers(answerline) ==
  LET cleaned == cleanAnswerline(answerline)
      boldAnswers == Map(removeTags, getTextBetweenTags(cleaned, <<"s", "t", "r", "o", "n", "g">>))
      normalizedAnswer == removeTags(cleaned)
      answers ==
        <<primaryAnswer(normalizedAnswer)>>
          \o KeptGroups(matchAll(normalizedAnswer, <<"a", "c", "c", "e", "p", "t">>, 1), normalizedAnswer, "accept")
      allAnswers == combine(boldAnswers, answers)
      answersWithoutFirstNames == Map(removeFirstNames, allAnswers)
  IN getUnique(emptyStringFilter(
       Map(normalizeAnswer, combine(allAnswers, answersWithoutFirstNames))))

parsePromptableAnswers(answer) ==
  LET cleaned == cleanAnswerline(answer)
      underlinedAnswers == Map(removeTags, getTextBetweenTags(cleaned, <<"u">>))
      normalizedAnswer == removeTags(cleaned)
      prompts ==
        KeptGroups(matchAll(normalizedAnswer, <<"p", "r", "o", "m", "p", "t", " ", "o", "n">>, 1), normalizedAnswer, "prompt")
  IN getUnique(emptyStringFilter(
       Map(normalizeAnswer, combine(underlinedAnswers, prompts))))

\* -------------------------------------------------------------- judging
\* compareTwoStrings of string-similarity: Dice's coefficient of the letter
\* pairs, as the fraction num/den
removeSpaces(s) == SelectSeq(s, LAMBDA c : c # " ")
Bigrams(s) == [i \in 1..(Len(s) - 1) |-> <<s[i], s[i + 1]>>]
RemoveAt(s, i) == SubSeq(s, 1, i - 1) \o SubSeq(s, i + 1, Len(s))
RECURSIVE intersectionSize(_, _)
intersectionSize(firstBigrams, secondBigrams) ==
  IF secondBigrams = <<>> THEN 0
  ELSE LET hits == {i \in DOMAIN firstBigrams : firstBigrams[i] = Head(secondBigrams)}
       IN IF hits = {}
          THEN intersectionSize(firstBigrams, Tail(secondBigrams))
          ELSE 1 + intersectionSize(RemoveAt(firstBigrams, Smallest(hits)),
                                    Tail(secondBigrams))
compareTwoStrings(first, second) ==
  LET a == removeSpaces(first)
      b == removeSpaces(second)
  IN IF a = b THEN [num |-> 1, den |-> 1]
     ELSE IF Len(a) < 2 \/ Len(b) < 2 THEN [num |-> 0, den |-> 1]
     ELSE [num |-> 2 * intersectionSize(Bigrams(a), Bigrams(b)),
           den |-> Len(a) + Len(b) - 2]

\* r > q, for two ratings
Greater(r, q) == r.num * q.den > q.num * r.den

\* a checkAnswer that always names the first answer as the best match
checkAnswerFirstIndex(userAnswer, answers) ==
  IF Len(answers) = 0
  THEN [rating |-> [num |-> 0, den |-> 1], bestMatchIndex |-> 0]
  ELSE LET ratings == [i \in DOMAIN answers |-> compareTwoStrings(userAnswer, answers[i])]
           best == Smallest({i \in DOMAIN answers :
                               \A j \in DOMAIN answers : ~Greater(ratings[j], ratings[i])})
       IN [rating |-> ratings[best], bestMatchIndex |-> 1]

\* checkAnswer: no answers give rating 0 and no index; otherwise
\* ss.findBestMatch, the first of the best-rated answers
checkAnswer(userAnswer, answers) ==
  IF Len(answers) = 0
  THEN [rating |-> [num |-> 0, den |-> 1], bestMatchIndex |-> 0]
  ELSE LET ratings == [i \in DOMAIN answers |-> compareTwoStrings(userAnswer, answers[i])]
           best == Smallest({i \in DOMAIN answers :
                               \A j \in DOMAIN answers : ~Greater(ratings[j], ratings[i])})
       IN [rating |-> ratings[best], bestMatchIndex |-> best]

MIN_RATING == [num |-> 6, den |-> 10]

\* a judge that takes a rating of exactly MIN_RATING for a match
judgeAtLeastMinRating(acceptable, promptable, userAnswer) ==
  LET a == checkAnswer(userAnswer, acceptable)
      q == checkAnswer(userAnswer, promptable)
  IN IF ~Greater(MIN_RATING, a.rating)
     THEN [verdict |-> "correct", promptableAnswers |-> promptable]
     ELSE IF Len(promptable) > 0 /\ ~Greater(MIN_RATING, q.rating)
     THEN [verdict |-> "prompt", promptableAnswers |-> RemoveAt(promptable, q.bestMatchIndex)]
     ELSE [verdict |-> "incorrect", promptableAnswers |-> promptable]

\* Judge.judge: the verdict, and the promptable answers it leaves
judge(acceptable, promptable, userAnswer) ==
  LET a == checkAnswer(userAnswer, acceptable)
      q == checkAnswer(userAnswer, promptable)
  IN IF Greater(a.rating, MIN_RATING)
     THEN [verdict |-> "correct", promptableAnswers |-> promptable]
     ELSE IF Len(promptable) > 0 /\ Greater(q.rating, MIN_RATING)
     THEN [verdict |-> "prompt", promptableAnswers |-> RemoveAt(promptable, q.bestMatchIndex)]
     ELSE [verdict |-> "incorrect", promptableAnswers |-> promptable]

\* ------------------------------------------------ answer lines (inputs)
\* answers that occur in answer lines and submissions
Abcdef == <<"a", "b", "c", "d", "e", "f">>
Abcdeg == <<"a", "b", "c", "d", "e", "g">>
Abcdxy == <<"a", "b", "c", "d", "x", "y">>
Mnop == <<"m", "n", "o", "p">>
Wxyz == <<"w", "x", "y", "z">>
JohnAdams == <<"j", "o", "h", "n", " ", "a", "d", "a", "m", "s">>
Adams == <<"a", "d", "a", "m", "s">>

\* "X [accept Y or Z] (do not accept W)"
AcceptForm(f) ==
  f.x \o <<" ", "[", "a", "c", "c", "e", "p", "t", " ">> \o f.y \o <<" ", "o", "r", " ">> \o f.z
      \o <<"]", " ", "(", "d", "o", " ", "n", "o", "t", " ", "a", "c", "c", "e", "p", "t", " ">> \o f.w \o <<")">>
AcceptForms ==
  [x : {JohnAdams, Abcdxy}, y : {Abcdef}, z : {Mnop}, w : {Wxyz, Adams}]

\* "x [Q accept wxyz]" and "x [Q or wxyz]", for the words Q before the candidate
Qualifiers ==
  {<<>>,
   \* also
   <<"a", "l", "s", "o">>,
   \* do not
   <<"d", "o", " ", "n", "o", "t">>,
   \* do not prompt on or
   <<"d", "o", " ", "n", "o", "t", " ", "p", "r", "o", "m", "p", "t", " ", "o", "n", " ", "o", "r">>,
   \* do not accept or
   <<"d", "o", " ", "n", "o", "t", " ", "a", "c", "c", "e", "p", "t", " ", "o", "r">>,
   \* do not prompt or
   <<"d", "o", " ", "n", "o", "t", " ", "p", "r", "o", "m", "p", "t", " ", "o", "r">>,
   \* accept abcdef
   <<"a", "c", "c", "e", "p", "t", " ", "a", "b", "c", "d", "e", "f">>,
   \* do not accept abcdef
   <<"d", "o", " ", "n", "o", "t", " ", "a", "c", "c", "e", "p", "t", " ", "a", "b", "c", "d", "e", "f">>,
   \* prompt on abcdef
   <<"p", "r", "o", "m", "p", "t", " ", "o", "n", " ", "a", "b", "c", "d", "e", "f">>,
   \* prompt abcdef
   <<"p", "r", "o", "m", "p", "t", " ", "a", "b", "c", "d", "e", "f">>,
   \* do not accept abcdef;
   <<"d", "o", " ", "n", "o", "t", " ", "a", "c", "c", "e", "p", "t", " ", "a", "b", "c", "d", "e", "f", ";">>,
   \* prompt on abcdef,
   <<"p", "r", "o", "m", "p", "t", " ", "o", "n", " ", "a", "b", "c", "d", "e", "f", ",">>,
   \* prompt on abcdef do not
   <<"p", "r", "o", "m", "p", "t", " ", "o", "n", " ", "a", "b", "c", "d", "e", "f", " ", "d", "o", " ", "n", "o", "t">>}
QualifiedForm(f) ==
  <<"x", " ", "[">> \o f.qualifier \o (IF f.qualifier = <<>> THEN <<>> ELSE <<" ">>)
      \o f.introducer \o <<" ">> \o Wxyz \o <<"]">>
\* "do not prompt or prompt on ..." is not a qualifier of a prompt
PromptQualifiers == Qualifiers \ {<<"d", "o", " ", "n", "o", "t", " ", "p", "r", "o", "m", "p", "t", " ", "o", "n", " ", "o", "r">>, <<"d", "o", " ", "n", "o", "t", " ", "p", "r", "o", "m", "p", "t", " ", "o", "r">>}
QualifiedForms ==
  [qualifier : Qualifiers, introducer : {<<"a", "c", "c", "e", "p", "t">>, <<"o", "r">>}]
    \cup [qualifier : PromptQualifiers, introducer : {<<"p", "r", "o", "m", "p", "t", " ", "o", "n">>}]

\* "x [prompt on V do not accept or V]"
PromptForm(v) ==
  <<"x", " ", "[", "p", "r", "o", "m", "p", "t", " ", "o", "n", " ">> \o v \o <<" ", "d", "o", " ", "n", "o", "t", " ", "a", "c", "c", "e", "p", "t", " ", "o", "r", " ">> \o v \o <<"]">>
PromptFormAnswers == {Wxyz, Abcdef}

\* answer lines for judging
JudgeLines ==
  {
   \* []
   <<"[", "]">>,
   \* [prompt on abcdef]
   <<"[", "p", "r", "o", "m", "p", "t", " ", "o", "n", " ", "a", "b", "c", "d", "e", "f", "]">>,
   \* abcdef
   <<"a", "b", "c", "d", "e", "f">>,
   \* abcdef [prompt on mnop]
   <<"a", "b", "c", "d", "e", "f", " ", "[", "p", "r", "o", "m", "p", "t", " ", "o", "n", " ", "m", "n", "o", "p", "]">>,
   \* x [prompt on abcdef, prompt on abcdeg, prompt on mnop]
   <<"x", " ", "[", "p", "r", "o", "m", "p", "t", " ", "o", "n", " ", "a", "b", "c", "d", "e", "f", ",", " ", "p", "r", "o", "m", "p", "t", " ", "o", "n", " ", "a", "b", "c", "d", "e", "g", ",", " ", "p", "r", "o", "m", "p", "t", " ", "o", "n", " ", "m", "n", "o", "p", "]">>,
   \* x [prompt on mnop; prompt on abcdeg; prompt on abcdef]
   <<"x", " ", "[", "p", "r", "o", "m", "p", "t", " ", "o", "n", " ", "m", "n", "o", "p", ";", " ", "p", "r", "o", "m", "p", "t", " ", "o", "n", " ", "a", "b", "c", "d", "e", "g", ";", " ", "p", "r", "o", "m", "p", "t", " ", "o", "n", " ", "a", "b", "c", "d", "e", "f", "]">>}

\* answer lines without markup, brackets, parentheses, accept, or, prompt
PlainLines ==
  {Abcdef, JohnAdams,
   \* ?
   <<"?">>,
   \* 1  abcdef
   <<"1", " ", " ", "a", "b", "c", "d", "e", "f">>}

\* "X [accept <strong>B</strong> or Z]" and "x [prompt on V or <u>U</u>]"
BoldForm(f) ==
  f.x \o <<" ", "[", "a", "c", "c", "e", "p", "t", " ", "<", "s", "t", "r", "o", "n", "g", ">">> \o f.b \o <<"<", "/", "s", "t", "r", "o", "n", "g", ">", " ", "o", "r", " ">> \o f.z \o <<"]">>
BoldForms ==
  [x : {Abcdxy, Abcdef}, b : {Abcdef}, z : {Mnop, Abcdef, <<"?">>}]
UnderlineForm(f) ==
  <<"x", " ", "[", "p", "r", "o", "m", "p", "t", " ", "o", "n", " ">> \o f.v \o <<" ", "o", "r", " ", "<", "u", ">">> \o f.u \o <<"<", "/", "u", ">", "]">>
UnderlineForms ==
  [v : {Wxyz}, u : {Abcdeg, Wxyz, <<"?">>}]

AnswerLines ==
  {AcceptForm(f) : f \in AcceptForms}
    \cup {BoldForm(f) : f \in BoldForms}
    \cup {UnderlineForm(f) : f \in UnderlineForms}
    \cup PlainLines
    \cup {QualifiedForm(f) : f \in QualifiedForms}
    \cup {PromptForm(v) : v \in PromptFormAnswers}
    \cup JudgeLines

\* what the user answers
Submissions == {Abcdef, Abcdxy, Mnop, Wxyz, Adams, <<"z", "z">>}

\* new Judge(answerline), for every answer line
Judges ==
  [line \in AnswerLines |->
     [acceptableAnswers |-> parseAcceptableAnswers(line),
      promptableAnswers |-> parsePromptableAnswers(line)]]

NewJudge ==
  /\ \E line \in AnswerLines :
       /\ judgeAnswerline' = line
       /\ acceptableAnswers' = Judges[line].acceptableAnswers
       /\ promptableAnswers' = Judges[line].promptableAnswers
  /\ lastJudged' = NoVerdict
  /\ UNCHANGED <<readerVars, scored, normalizing, settingsVars>>

\* a judge call that leaves the promptable answers as they are
JudgeAnswerKeepsPrompts ==
  /\ judgeAnswerline # <<>>
  /\ \E userAnswer \in Submissions :
       LET r == judge(acceptableAnswers, promptableAnswers, userAnswer)
       IN lastJudged' = [userAnswer |-> userAnswer, verdict |-> r.verdict]
  /\ UNCHANGED <<readerVars, judgeAnswerline, acceptableAnswers, promptableAnswers, scored, normalizing, settingsVars>>

\* judge.judge(userAnswer)
JudgeAnswer ==
  /\ judgeAnswerline # <<>>
  /\ \E userAnswer \in Submissions :
       LET r == judge(acceptableAnswers, promptableAnswers, userAnswer)
       IN /\ lastJudged' = [userAnswer |-> userAnswer, verdict |-> r.verdict]
          /\ promptableAnswers' = r.promptableAnswers
  /\ UNCHANGED <<readerVars, judgeAnswerline, acceptableAnswers, scored, normalizing, settingsVars>>

JudgeNext == NewJudge \/ JudgeAnswer
JudgeSpec == Init /\ [][JudgeNext]_vars

\* -------------------------------------------------------- normalizing
MaxText == 3           \* characters of a text handed to normalizeAnswer

\* a letter, a digit, a space, a quote and a punctuation mark
TextChars == {"a", "1", " ", "'", "."}
Texts == UNION {[1..n -> TextChars] : n \in 0..MaxText}

\* normalizeAnswer(s)
NormalizeAnswer ==
  /\ \E s \in Texts :
       normalizing' = [input |-> s, output |-> normalizeAnswer(s), passes |-> 1]
  /\ UNCHANGED <<readerVars, judgeAnswerline, acceptableAnswers, promptableAnswers,
                 lastJudged, scored, settingsVars>>

\* normalizeAnswer of the text normalizeAnswer has returned
NormalizeAgain ==
  /\ normalizing.passes = 1
  /\ normalizing' = [input |-> normalizing.output,
                     output |-> normalizeAnswer(normalizing.output),
                     passes |-> 2]
  /\ UNCHANGED <<readerVars, judgeAnswerline, acceptableAnswers, promptableAnswers,
                 lastJudged, scored, settingsVars>>

NormalizeNext == NormalizeAnswer \/ NormalizeAgain
NormalizeSpec == Init /\ [][NormalizeNext]_vars

\* ------------------------------------------------------------ settings
\* the categories, subcategories and difficulties the settings offer, and the
\* category of every subcategory
SettingsCategories == {0, 1}
SettingsSubcategories == {0, 1, 2}
SettingsDifficulties == {0, 1}
SUBCATEGORY_MAP == [sc \in SettingsSubcategories |-> IF sc = 2 THEN 1 ELSE 0]

\* the options a multi-select hands to onChange: values of V, none twice
Selections(V) ==
  {o \in UNION {[1..n -> V] : n \in 0..Cardinality(V)} :
     \A i, j \in DOMAIN o : o[i] = o[j] => i = j}

\* onCategoriesChange without the update of the subcategories
OnCategoriesChangeKeepsSubcategories ==
  /\ \E options \in Selections(SettingsCategories) :
       categories' = options
  /\ UNCHANGED <<readerVars, judgeAnswerline, acceptableAnswers, promptableAnswers,
                 lastJudged, scored, normalizing, subcategories, difficulties>>

\* onCategoriesChange(options)
OnCategoriesChange ==
  /\ \E options \in Selections(SettingsCategories) :
       LET newCategories == options
           newSubcategories ==
             SelectSeq(subcategories,
                       LAMBDA sc : \A i \in DOMAIN newCategories :
                                     newCategories[i] # SUBCATEGORY_MAP[sc])
       IN /\ categories' = newCategories
          /\ subcategories' = newSubcategories
  /\ UNCHANGED <<readerVars, judgeAnswerline, acceptableAnswers, promptableAnswers,
                 lastJudged, scored, normalizing, difficulties>>

\* onSubcategoriesChange(options)
OnSubcategoriesChange ==
  /\ \E options \in Selections(SettingsSubcategories) :
       LET newSubcategories == options
           categoriesToExclude ==
             {SUBCATEGORY_MAP[newSubcategories[i]] : i \in DOMAIN newSubcategories}
           newCategories == SelectSeq(categories, LAMBDA c : c \notin categoriesToExclude)
       IN /\ subcategories' = newSubcategories
          /\ categories' = newCategories
  /\ UNCHANGED <<readerVars, judgeAnswerline, acceptableAnswers, promptableAnswers,
                 lastJudged, scored, normalizing, difficulties>>

\* onDifficultiesChange(options)
OnDifficultiesChange ==
  /\ \E options \in Selections(SettingsDifficulties) :
       difficulties' = options
  /\ UNCHANGED <<readerVars, judgeAnswerline, acceptableAnswers, promptableAnswers,
                 lastJudged, scored, normalizing, categories, subcategories>>

\* the handlers of the settings; onReadingSpeedChange is UpdateReadingSpeed
SettingsNext ==
  \/ OnCategoriesChange
  \/ OnSubcategoriesChange
  \/ OnDifficultiesChange
  \/ UpdateReadingSpeed
SettingsSpec == Init /\ [][SettingsNext]_vars

\* ------------------------------------------------------------- scoring
MaxParts == 5          \* part results handed to getBonusScore

TossupScore == [neg |-> -5, ten |-> 10, power |-> 15]
BonusScore == [zero |-> 0, ten |-> 10, twenty |-> 20, thirty |-> 30]

\* E.name, for an enum object E
Member(E, name) == IF name \in DOMAIN E THEN E[name] ELSE Undefined

getTossupScore(isCorrect, isInPower, didBuzzAtEnd) ==
  IF isCorrect
  THEN IF isInPower THEN Member(TossupScore, "power") ELSE Member(TossupScore, "ten")
  ELSE IF didBuzzAtEnd THEN Member(TossupScore, "incorrect") ELSE Member(TossupScore, "neg")

\* results.reduce((acc, res) => acc + (res.isCorrect ? 1 : 0), 0)
RECURSIVE CorrectCount(_)
CorrectCount(partResults) ==
  IF partResults = <<>> THEN 0
  ELSE (IF Head(partResults) THEN 1 ELSE 0) + CorrectCount(Tail(partResults))

getBonusScore(partResults) ==
  LET correctCount == CorrectCount(partResults)
  IN IF correctCount = 3 THEN Member(BonusScore, "thirty")
     ELSE IF correctCount = 2 THEN Member(BonusScore, "twenty")
     ELSE IF correctCount = 1 THEN Member(BonusScore, "ten")
     ELSE Member(BonusScore, "zero")

\* the part results of a bonus, each by its isCorrect
PartResults == UNION {[1..n -> BOOLEAN] : n \in 0..MaxParts}

\* getTossupScore is called for a judged tossup
ScoreTossup ==
  /\ \E isCorrect \in BOOLEAN, isInPower \in BOOLEAN, didBuzzAtEnd \in BOOLEAN :
       scored' = [kind |-> "tossup",
                  args |-> <<isCorrect, isInPower, didBuzzAtEnd>>,
                  value |-> getTossupScore(isCorrect, isInPower, didBuzzAtEnd)]
  /\ UNCHANGED <<readerVars, judgeAnswerline, acceptableAnswers, promptableAnswers, lastJudged, normalizing, settingsVars>>

\* getBonusScore is called for the parts of a bonus
ScoreBonus ==
  /\ \E partResults \in PartResults :
       scored' = [kind |-> "bonus",
                  args |-> partResults,
                  value |-> getBonusScore(partResults)]
  /\ UNCHANGED <<readerVars, judgeAnswerline, acceptableAnswers, promptableAnswers, lastJudged, normalizing, settingsVars>>

ScoreNext == ScoreTossup \/ ScoreBonus
ScoreSpec == Init /\ [][ScoreNext]_vars

\* ---------------------------------------------------------------- claims
\* the completion of nextTossup, as a relation between two states
Completes == nextPc = "resume" /\ nextPc' = "none"

\* C1: the status changes only along the edges idle->fetching,
\* judged->fetching, fetching->reading, fetching->empty, reading->answering,
\* answering->prompting, answering->judged, prompting->judged (and
\* judged->idle, which the spec allows).
StatusEdges ==
  {<<idle, fetching>>, <<judged, fetching>>, <<fetching, reading>>,
   <<fetching, empty>>, <<reading, answering>>, <<answering, prompting>>,
   <<prompting, prompting>>, <<answering, judged>>, <<prompting, judged>>,
   <<judged, idle>>}
C1_StatusEdges == [][status' # status => <<status, status'>> \in StatusEdges]_vars
\* two questions were read and the second one is judged
C1_Witness == status = judged /\ Len(shown) = 2 /\ Len(results) = 2

\* a fetch settles (the awaited one, or a background one)
FetchSettled ==
  \/ nextPc = "await" /\ nextPc' # "await"
  \/ bgInFlight' = bgInFlight - 1
\* the questions the settling fetch delivered
Delivered == [i \in 1..(served' - served) |-> served + i]

\* C2 as claimed: a request-next that awaits its fetch keeps the status
\* fetching until the fetch completes, and then ends reading if that fetch
\* delivered a question and empty if it delivered none.
C2_Original ==
  /\ [](nextPc = "await" => status = fetching)
  /\ [][Completes /\ awaited.blocking
         => status' = IF awaited.delivered >= 1 THEN reading ELSE empty]_vars
\* C2 amended: a request-next that awaits its fetch keeps the status fetching
\* until the fetch completes, and then ends reading if the cache holds a
\* question (which it does when the fetch delivered one, and also when a
\* background refill completed meanwhile) and empty if the cache is empty.
C2_AwaitThenReadingOrEmpty ==
  /\ [](nextPc = "await" => status = fetching)
  /\ [][status = fetching /\ status' # fetching => Completes]_vars
  /\ [][Completes /\ awaited.blocking
         => /\ status' = IF Len(tossups) >= 1 THEN reading ELSE empty
            /\ awaited.delivered >= 1 => status' = reading]_vars
\* the awaited fetch delivered nothing, a background refill did, and the
\* request ended in reading
C2_Witness ==
  /\ nextPc = "none" /\ awaited.blocking /\ awaited.delivered = 0
  /\ status = reading

\* C3 as claimed: without filter actions the questions shown are the
\* questions fetched, each once and in the order fetched, starting with the
\* first question of the first batch; the question being read is no longer
\* in the cache.
C3_PopsOldestUnread ==
  /\ ~filtered => shown = [i \in 1..Len(shown) |-> i]
  /\ status = reading => \A i \in DOMAIN tossups : tossups[i] # currentTossup

\* C4: a settling fetch appends the questions it delivered to the end of the
\* cache, in delivery order, and changes nothing else of the reader: not the
\* status, the current question, the buzz, the score, the results, nor the
\* reveal in progress.
C4_FetchOnlyAppends ==
  [][FetchSettled
       => /\ tossups' = tossups \o Delivered
          /\ UNCHANGED <<status, currentTossup, currentBuzz, score, results,
                         currentResult, visibleIndex, incrementId, timers>>]_vars
\* two background refills were started, one has settled with questions while
\* a word is being revealed
C4_Witness ==
  /\ requests = 3 /\ bgInFlight = 1 /\ status = reading /\ timers # {}
  /\ served > 3 /\ Len(tossups) >= 2

\* C5 as claimed: a failed request (like an empty answer, it delivers
\* nothing) leaves the cache and the status as they are; a failure of the
\* awaited fetch queues the continuation of nextTossup, which ends in empty;
\* and the status does not stay fetching forever.
C5_Original ==
  /\ [][FetchSettled /\ served' = served
         => UNCHANGED <<tossups, status, currentTossup, crashed>>]_vars
  /\ [][nextPc = "await" /\ awaited'.failed => nextPc' = "resume"]_vars
  /\ [][Completes /\ awaited.blocking /\ awaited.failed => status' = empty]_vars
  /\ (status = fetching ~> status # fetching)
\* C5 amended: as claimed, but the request that waited on the failed fetch
\* ends in empty when the cache is still empty at that moment; it ends in
\* reading when a background refill filled the cache meanwhile.
C5_FailureIsEmptyBatch ==
  /\ [][FetchSettled /\ served' = served
         => UNCHANGED <<tossups, status, currentTossup, crashed>>]_vars
  /\ [][nextPc = "await" /\ awaited'.failed => nextPc' = "resume"]_vars
  /\ [][Completes /\ awaited.blocking /\ awaited.failed
         => status' = IF tossups = <<>> THEN empty ELSE reading]_vars
  /\ (status = fetching ~> status # fetching)
\* the awaited fetch failed and the request ended in empty
C5_Witness ==
  nextPc = "none" /\ awaited.blocking /\ awaited.failed /\ status = empty

\* C6: at most one reveal timer is outstanding, and a timer is scheduled
\* only when none is outstanding.
C6_OneTimer ==
  [][/\ Cardinality(timers') <= 1
     /\ (\E t \in timers' : t \notin timers) => timers = {}]_vars
\* the reading speed changed while a timer was outstanding
C6_Witness ==
  /\ status = reading /\ Cardinality(timers) = 1
  /\ \E t \in timers : t.delay # getReadingTimeoutDelay(readingSpeed)

\* C7 as claimed: a timer that fires when the status is no longer reading
\* changes neither the visible-word index nor the published buzz.
C7_NoStepAfterCancel ==
  [][TimerFire /\ status # reading
       => visibleIndex' = visibleIndex /\ currentBuzz' = currentBuzz]_vars

\* C8: while a question is shown and its first word has been published, the
\* buzz index is within 0..wordCount-1, the read text is the first index+1
\* words and the power flag is that of the word at the index; the visible
\* index is at most the word count; and the k-th buzz published for a
\* question has index k-1 (0 first, then up by one per reveal step).
C8_BuzzIndexSteps ==
  /\ [](Mounted(Cur) =>
          LET words == getWords(currentTossup)
          IN /\ visibleIndex <= Len(words)
             /\ published > 0 =>
                  /\ currentBuzz.index \in 0..(Len(words) - 1)
                  /\ currentBuzz.index = published - 1
                  /\ currentBuzz.readText = Originals(words, currentBuzz.index + 1)
                  /\ currentBuzz.isPower = words[currentBuzz.index + 1].isInPower)
  /\ [][currentBuzz' # currentBuzz
          => published' = published + 1 /\ currentBuzz'.index = published]_vars
\* the second word of a question has been published
C8_Witness ==
  status = reading /\ published = 2 /\ currentBuzz.index = 1 /\ visibleIndex = 1

WordCount == Len(getWords(currentTossup))

\* C9 as claimed: every reading phase reaches answering; the automatic buzz
\* (the buzz an effect dispatches) fires when the visible index has reached
\* the word count, and only then, and the buzz it freezes is the one of
\* the last word.
C9_ReadingReachesAnswering ==
  /\ (status = reading ~> status = answering)
  /\ [](status = reading /\ Mounted(Cur) /\ visibleIndex = WordCount => fxPending)
  /\ [][status = reading /\ status' = answering /\ fxPending
          => /\ visibleIndex = WordCount
             /\ currentBuzz.index = WordCount - 1
             /\ currentBuzz' = currentBuzz]_vars

\* C10: a buzz in status reading gives answering and leaves the published
\* buzz as it is, which is the buzz of the word at the visible index; no step
\* changes the buzz while the status is answering, prompting or judged; and
\* a buzz in any other status changes nothing.
C10_BuzzFreezes ==
  /\ [](status = reading /\ UserCan =>
          /\ buzz(Cur) = [Cur EXCEPT !.status = answering]
          /\ published > 0
          /\ currentBuzz.index = visibleIndex)
  /\ [][(status \in {answering, prompting, judged}) => currentBuzz' = currentBuzz]_vars
  /\ [](status # reading => buzz(Cur) = Cur)
\* the user buzzed on the first word of a two-word question, which is judged
C10_Witness ==
  status = judged /\ WordCount = 2 /\ currentBuzz.index = 0 /\ published = 1

\* C11: in status answering or prompting, prompt gives prompting and leaves
\* the result history, the current result and the score as they are, and
\* submitAnswer gives judged and puts exactly one result in front of the
\* history; in any other status both change nothing; the history only grows,
\* by one result per judged question, so no question is judged twice.
C11_PromptNeverFinalizes ==
  /\ [](status \in {answering, prompting} =>
          /\ prompt(Cur) = [Cur EXCEPT !.status = prompting]
          /\ \A s \in ScoreInputs :
               submitAnswer(Cur, ResultOf(Cur, s))
                 = [Cur EXCEPT !.status = judged,
                               !.currentResult = ResultOf(Cur, s),
                               !.results = <<ResultOf(Cur, s)>> \o results,
                               !.score = Plus(score, s)])
  /\ [](status \notin {answering, prompting} =>
          /\ prompt(Cur) = Cur
          /\ \A s \in ScoreInputs : submitAnswer(Cur, ResultOf(Cur, s)) = Cur)
  /\ [][Prompt => UNCHANGED <<results, currentResult, score>>]_vars
  /\ [][results' # results \/ currentResult' # currentResult \/ score' # score
          => \/ /\ status \in {answering, prompting} /\ status' = judged
                /\ Len(results') = Len(results) + 1
                /\ Tail(results') = results
                /\ Head(results') = currentResult'
                /\ score' = Plus(score, currentResult'.score)
             \/ /\ Completes /\ currentResult' = EmptyResult
                /\ UNCHANGED <<results, score>>]_vars
  /\ [](Len(results) <= Len(shown))
\* the first question is judged and the second one has been prompted
C11_Witness ==
  status = prompting /\ Len(shown) = 2 /\ Len(results) = 1

\* C12: when reading is entered, the visible-word index is 0, no timer id is
\* held and no reveal timer is outstanding, and nothing is published yet for
\* the new question; the first buzz published for a question has index 0.
C12_ReadingStartsAtZero ==
  /\ [][status # reading /\ status' = reading
          => /\ visibleIndex' = 0
             /\ incrementId' = NullId
             /\ timers' = {}
             /\ published' = 0]_vars
  /\ [][published = 0 /\ published' # 0
          => /\ status = reading /\ status' = reading
             /\ published' = 1
             /\ currentBuzz'.index = 0
             /\ visibleIndex' = 0]_vars
\* the first question stopped at its second word, and the first word of the
\* second question is published
C12_Witness ==
  /\ Len(shown) = 2 /\ Len(results) = 1 /\ results[1].buzz = 1
  /\ status = reading /\ published = 1 /\ currentBuzz.index = 0

\* C13: a change of the reading speed leaves the outstanding timer, the timer
\* id, the visible index and the published buzz as they are; while the status
\* stays reading an outstanding timer goes away only by firing, and is never
\* replaced or joined by another one (so it fires with the delay it was
\* scheduled with); a timer is scheduled with the delay of the reading speed
\* that is set when it is scheduled.
C13_SpeedChangeNotRetroactive ==
  /\ [][readingSpeed' # readingSpeed
          => UNCHANGED <<timers, incrementId, visibleIndex, currentBuzz, status>>]_vars
  /\ [][status = reading /\ status' = reading /\ timers # {} /\ timers' # timers
          => TimerFire /\ timers' = {}]_vars
  /\ [][\A t \in timers' \ timers :
           /\ timers = {}
           /\ readingSpeed' = readingSpeed
           /\ t.delay = getReadingTimeoutDelay(readingSpeed)]_vars
\* the speed was changed while the timer of the second word was outstanding:
\* the timer is still there with the old delay, and the read effect is about
\* to run again
C13_Witness ==
  /\ status = reading /\ visibleIndex = 1 /\ fxPending /\ incrementId # NullId
  /\ \E t \in timers :
       t.v = 1 /\ t.id = incrementId /\ t.delay # getReadingTimeoutDelay(readingSpeed)

\* the fetches that have been started and have not settled
InFlight == bgInFlight + (IF nextPc = "await" THEN 1 ELSE 0)

\* C14: a fetch is started only by a step that accepts a request-next in
\* status idle or judged, one fetch at most by such a step, and only when the
\* cache holds fewer than 5 questions; an accepted request-next that finds 5
\* or more starts none; the settling of a fetch (failed, empty or not) and
\* the completion of nextTossup start none; and no step in another status
\* starts one.
C14_FetchOnlyOnRequest ==
  /\ [][InFlight' > InFlight
          => /\ status \in {idle, judged} /\ status' = fetching
             /\ requests' = requests + 1
             /\ InFlight' = InFlight + 1
             /\ Len(tossups) < LowCacheThreshold]_vars
  /\ [][requests' # requests
          => InFlight' = InFlight + (IF Len(tossups) < LowCacheThreshold THEN 1 ELSE 0)]_vars
  /\ [][FetchSettled => InFlight' = InFlight - 1]_vars
  /\ [][Completes => InFlight' = InFlight]_vars
  /\ [][(status \notin {idle, judged}) => InFlight' <= InFlight]_vars
\* the first request fetched a full batch, the second found 5 questions and
\* fetched nothing, the third found 4 and started one background refill
C14_Witness ==
  /\ ~filtered /\ requests = 3 /\ served = BigBatch /\ bgInFlight = 1
  /\ Len(tossups) = LowCacheThreshold - 2

C16_BonusScoring ==
  scored.kind = "bonus" =>
    /\ Len(scored.args) = 3 =>
         scored.value = 10 * Cardinality({i \in 1..3 : scored.args[i]})
    /\ Cardinality({i \in DOMAIN scored.args : scored.args[i]}) > 3 =>
         scored.value \notin {0, 10, 20, 30}

\* the answers of a list that userAnswer matches: similarity above 0.6
Matches(userAnswer, answers) ==
  {i \in DOMAIN answers : Greater(compareTwoStrings(userAnswer, answers[i]), MIN_RATING)}

\* C17: judge gives correct exactly when some acceptable answer matches the
\* submission with similarity above 0.6, whatever the promptable answers;
\* otherwise prompt exactly when some promptable answer that is left matches
\* it; otherwise incorrect.  With no acceptable and no promptable answers the
\* verdict is incorrect.
C17_JudgeVerdict ==
  [][JudgeAnswer =>
       LET u == lastJudged'.userAnswer
       IN /\ lastJudged'.verdict =
               IF Matches(u, acceptableAnswers) # {} THEN "correct"
               ELSE IF Matches(u, promptableAnswers) # {} THEN "prompt"
               ELSE "incorrect"
          /\ acceptableAnswers = <<>> /\ promptableAnswers = <<>>
               => lastJudged'.verdict = "incorrect"]_vars
\* a submission with similarity exactly 0.6 to the only acceptable answer was
\* judged incorrect
C17_Witness ==
  /\ lastJudged.verdict = "incorrect"
  /\ acceptableAnswers # <<>>
  /\ \A i \in DOMAIN acceptableAnswers :
       compareTwoStrings(lastJudged.userAnswer, acceptableAnswers[i]) = MIN_RATING

\* C18: a prompt verdict removes one promptable answer, a best-matching one
\* that matches the submission, and keeps the others in their order; the
\* removed answer is in the list no more; correct and incorrect verdicts leave
\* the promptable answers as they are; judge never changes the acceptable
\* answers; and the submission that was prompted, submitted again, is
\* prompted again only if another promptable answer matches it, and is
\* incorrect otherwise.
C18_PromptConsumed ==
  /\ [][JudgeAnswer /\ lastJudged'.verdict = "prompt" =>
          \E i \in Matches(lastJudged'.userAnswer, promptableAnswers) :
            /\ \A j \in DOMAIN promptableAnswers :
                 ~Greater(compareTwoStrings(lastJudged'.userAnswer, promptableAnswers[j]),
                          compareTwoStrings(lastJudged'.userAnswer, promptableAnswers[i]))
            /\ promptableAnswers' = RemoveAt(promptableAnswers, i)
            /\ \A j \in DOMAIN promptableAnswers' :
                 promptableAnswers'[j] # promptableAnswers[i]]_vars
  /\ [][JudgeAnswer /\ lastJudged'.verdict # "prompt"
          => promptableAnswers' = promptableAnswers]_vars
  /\ [][JudgeAnswer => acceptableAnswers' = acceptableAnswers]_vars
  /\ [][JudgeAnswer /\ lastJudged.verdict = "prompt"
          /\ lastJudged'.userAnswer = lastJudged.userAnswer
          => lastJudged'.verdict =
               IF Matches(lastJudged.userAnswer, promptableAnswers) # {}
               THEN "prompt" ELSE "incorrect"]_vars
\* the same submission was prompted twice, by two promptable answers, and the
\* third promptable answer is left
C18_Witness ==
  /\ judgeAnswerline = <<"x", " ", "[", "p", "r", "o", "m", "p", "t", " ", "o", "n", " ", "a", "b", "c", "d", "e", "f", ",", " ", "p", "r", "o", "m", "p", "t", " ", "o", "n", " ", "a", "b", "c", "d", "e", "g", ",", " ", "p", "r", "o", "m", "p", "t", " ", "o", "n", " ", "m", "n", "o", "p", "]">>
  /\ lastJudged = [userAnswer |-> Abcdef, verdict |-> "prompt"]
  /\ promptableAnswers = <<Mnop>>

\* the entries of a list of answers
Entries(answers) == {answers[i] : i \in DOMAIN answers}

\* C19 as claimed: for a line "X [accept Y or Z] (do not accept W)" the
\* acceptable answers contain the normalized X, Y and Z and not the
\* normalized W.
C19_AcceptFormParsed ==
  \A f \in AcceptForms :
    judgeAnswerline = AcceptForm(f) =>
      /\ {normalizeAnswer(f.x), normalizeAnswer(f.y), normalizeAnswer(f.z)}
           \subseteq Entries(acceptableAnswers)
      /\ normalizeAnswer(f.w) \notin Entries(acceptableAnswers)

\* the text of qualifier q since its last delimiter
SinceDelimiter(q) ==
  LET hits == {i \in DOMAIN q : q[i] \in {";", ",", "["}}
  IN IF hits = {} THEN q ELSE From(q, Largest(hits) + 1)

\* C20: in "x [Q accept wxyz]" the candidate wxyz is left out of the
\* acceptable answers exactly when Q ends with "do not", "do not prompt on or"
\* or "do not prompt or"; in "x [Q or wxyz]" exactly when the text of Q since
\* its last delimiter contains "do not accept", "prompt on" or "prompt"; in
\* "x [Q prompt on wxyz]" it is left out of the promptable answers exactly when
\* Q ends with "do not" or "do not accept or"; and for
\* "x [prompt on V do not accept or V]" V is not acceptable and is promptable
\* once (in the answers as parsed, before any judge call consumes a prompt).
C20_NegationFiltering ==
  /\ \A f \in QualifiedForms :
       judgeAnswerline = QualifiedForm(f) /\ lastJudged = NoVerdict =>
         LET q == f.qualifier
         IN /\ f.introducer = <<"a", "c", "c", "e", "p", "t">> =>
                 (Wxyz \notin Entries(acceptableAnswers)
                    <=> \E neg \in {<<"d", "o", " ", "n", "o", "t">>, <<"d", "o", " ", "n", "o", "t", " ", "p", "r", "o", "m", "p", "t", " ", "o", "n", " ", "o", "r">>, <<"d", "o", " ", "n", "o", "t", " ", "p", "r", "o", "m", "p", "t", " ", "o", "r">>} :
                          EndsWithAt(q, neg, Len(q)))
            /\ f.introducer = <<"o", "r">> =>
                 (Wxyz \notin Entries(acceptableAnswers)
                    <=> \E neg \in {<<"d", "o", " ", "n", "o", "t", " ", "a", "c", "c", "e", "p", "t">>, <<"p", "r", "o", "m", "p", "t", " ", "o", "n">>, <<"p", "r", "o", "m", "p", "t">>} :
                          Includes(SinceDelimiter(q), neg))
            /\ f.introducer = <<"p", "r", "o", "m", "p", "t", " ", "o", "n">> =>
                 (Wxyz \notin Entries(promptableAnswers)
                    <=> \E neg \in {<<"d", "o", " ", "n", "o", "t">>, <<"d", "o", " ", "n", "o", "t", " ", "a", "c", "c", "e", "p", "t", " ", "o", "r">>} :
                          EndsWithAt(q, neg, Len(q)))
  /\ \A v \in PromptFormAnswers :
       judgeAnswerline = PromptForm(v) /\ lastJudged = NoVerdict =>
         /\ v \notin Entries(acceptableAnswers)
         /\ Cardinality({i \in DOMAIN promptableAnswers : promptableAnswers[i] = v}) = 1
\* the judge of "x [prompt on wxyz do not accept or wxyz]"
C20_Witness ==
  /\ judgeAnswerline = PromptForm(Wxyz) /\ lastJudged = NoVerdict
  /\ promptableAnswers = <<Wxyz>>
  /\ acceptableAnswers = <<<<"x">>>>

\* C21 as claimed: an answer line without special tokens is parsed into exactly
\* one acceptable answer, the normalized line, and no promptable answer; and
\* no answer line is parsed into an empty list of acceptable answers.
C21_PlainLineParsed ==
  /\ \A line \in PlainLines :
       judgeAnswerline = line /\ lastJudged = NoVerdict =>
         /\ acceptableAnswers = <<normalizeAnswer(line)>>
         /\ promptableAnswers = <<>>
  /\ judgeAnswerline # <<>> => acceptableAnswers # <<>>

\* list holds entries of candidates only, none of them empty and none twice,
\* in the order in which they are first seen in candidates
FirstSeen(x, candidates) == Smallest({i \in DOMAIN candidates : candidates[i] = x})
InOrderOf(list, candidates) ==
  /\ Entries(list) \subseteq Entries(candidates) \ {<<>>}
  /\ \A i, j \in DOMAIN list :
       i < j => FirstSeen(list[i], candidates) < FirstSeen(list[j], candidates)

\* C22: the acceptable and the promptable answers of a Judge never hold an
\* empty string or the same answer twice, after any judge calls; for a line
\* "X [accept <strong>B</strong> or Z]" the acceptable answers are B, X, Z,
\* normalized, in this order (the answer in markup first) without the empty
\* ones and the repeated ones; for a line "x [prompt on V or <u>U</u>]" the
\* promptable answers are U, V in the same way, and judge calls leave the
\* promptable answers in this order.
C22_NoEmptyNoDuplicateInOrder ==
  /\ \A i \in DOMAIN acceptableAnswers :
       /\ acceptableAnswers[i] # <<>>
       /\ \A j \in DOMAIN acceptableAnswers : acceptableAnswers[i] = acceptableAnswers[j] => i = j
  /\ \A i \in DOMAIN promptableAnswers :
       /\ promptableAnswers[i] # <<>>
       /\ \A j \in DOMAIN promptableAnswers : promptableAnswers[i] = promptableAnswers[j] => i = j
  /\ \A f \in BoldForms :
       judgeAnswerline = BoldForm(f) =>
         LET accepted == <<normalizeAnswer(f.b), normalizeAnswer(f.x), normalizeAnswer(f.z)>>
         IN /\ InOrderOf(acceptableAnswers, accepted)
            /\ Entries(acceptableAnswers) = Entries(accepted) \ {<<>>}
  /\ \A f \in UnderlineForms :
       judgeAnswerline = UnderlineForm(f) =>
         LET prompted == <<normalizeAnswer(f.u), normalizeAnswer(f.v)>>
         IN /\ InOrderOf(promptableAnswers, prompted)
            /\ lastJudged = NoVerdict =>
                 Entries(promptableAnswers) = Entries(prompted) \ {<<>>}

\* the line "abcdxy [accept <strong>abcdef</strong> or ?]" is parsed: abcdef
\* comes before abcdxy and the empty answer of "?" is left out
C22_Witness ==
  /\ judgeAnswerline = BoldForm([x |-> Abcdxy, b |-> Abcdef, z |-> <<"?">>])
  /\ acceptableAnswers = <<Abcdef, Abcdxy>>

\* C23 as claimed: normalizeAnswer of a text that normalizeAnswer has returned
\* is that text.
C23_NormalizeIdempotent ==
  normalizing.passes = 2 => normalizing.output = normalizing.input

\* C27: no selected subcategory has its category among the selected
\* categories; onCategoriesChange removes the selected subcategories of the
\* new categories and leaves the others; onSubcategoriesChange removes the
\* selected categories of the new subcategories and leaves the others; a
\* change of the difficulties or of the reading speed changes neither list.
C27_NoSubcategoryOfSelectedCategory ==
  /\ [](\A i \in DOMAIN subcategories, j \in DOMAIN categories :
          SUBCATEGORY_MAP[subcategories[i]] # categories[j])
  /\ [][OnCategoriesChange =>
          subcategories' =
            SelectSeq(subcategories,
                      LAMBDA sc : SUBCATEGORY_MAP[sc] \notin Entries(categories'))]_vars
  /\ [][OnSubcategoriesChange =>
          categories' =
            SelectSeq(categories,
                      LAMBDA c : \A i \in DOMAIN subcategories' :
                                   SUBCATEGORY_MAP[subcategories'[i]] # c)]_vars
  /\ [][OnDifficultiesChange \/ UpdateReadingSpeed =>
          UNCHANGED <<categories, subcategories>>]_vars

\* with the subcategories 0 and 2 selected, category 0 has been selected: the
\* subcategory 0 of category 0 is gone and subcategory 2 is left
C27_Witness ==
  /\ categories = <<0>>
  /\ subcategories = <<2>>

\* the sum of the scores of results
RECURSIVE SumOfScores(_)
SumOfScores(rs) ==
  IF rs = <<>> THEN 0 ELSE Head(rs).score + SumOfScores(Tail(rs))

C25_CurrentQuestionPresent ==
  /\ [](status \in {reading, answering, prompting, judged} =>
          currentTossup \in 1..served)
  /\ [][NextTossupFulfilled /\ Len(tossups) <= 1 => status' = empty]_vars

\* C26: on one Judge every prompt verdict takes one answer off the promptable
\* answers and no judge call adds one, so there are never more of them than
\* were parsed at construction and at most that many prompt verdicts; with
\* no promptable answer left every verdict is correct or incorrect.
C26_PromptingTerminates ==
  /\ [](judgeAnswerline # <<>> =>
          Len(promptableAnswers) <= Len(Judges[judgeAnswerline].promptableAnswers))
  /\ [][JudgeAnswer =>
          /\ Len(promptableAnswers')
               = Len(promptableAnswers) - (IF lastJudged'.verdict = "prompt" THEN 1 ELSE 0)
          /\ promptableAnswers = <<>> => lastJudged'.verdict \in {"correct", "incorrect"}]_vars

\* the one promptable answer of "[prompt on abcdef]" is used up: abcdef is
\* judged incorrect
C26_Witness ==
  /\ judgeAnswerline = <<"[", "p", "r", "o", "m", "p", "t", " ", "o", "n", " ", "a", "b", "c", "d", "e", "f", "]">>
  /\ promptableAnswers = <<>>
  /\ lastJudged = [userAnswer |-> Abcdef, verdict |-> "incorrect"]

====
